---- MODULE Spec2Model ----
(***************************************************************************)
(* Model of app.py, the Indian Languages Translator: the prompt helpers,   *)
(* translate_text, translate_to_multiple and the part of main() that       *)
(* validates a Translate click, runs the batch and keeps the session       *)
(* history.                                                                *)
(*                                                                         *)
(* Python strings are modelled as sequences of one-character strings, so   *)
(* that `in`, strip() and f-string composition are computed, not assumed.  *)
(***************************************************************************)
EXTENDS Integers, Sequences, FiniteSets, TLC

----------------------------------------------------------------------------
(* String literals of the source *)

\* "Hindi"
Hindi ==
    <<"H", "i", "n", "d", "i">>
\* "Bengali"
Bengali ==
    <<"B", "e", "n", "g", "a", "l", "i">>
\* "Telugu"
Telugu ==
    <<"T", "e", "l", "u", "g", "u">>
\* "Marathi"
Marathi ==
    <<"M", "a", "r", "a", "t", "h", "i">>
\* "Tamil"
Tamil ==
    <<"T", "a", "m", "i", "l">>
\* "Gujarati"
Gujarati ==
    <<"G", "u", "j", "a", "r", "a", "t", "i">>
\* "Kannada"
Kannada ==
    <<"K", "a", "n", "n", "a", "d", "a">>
\* "Malayalam"
Malayalam ==
    <<"M", "a", "l", "a", "y", "a", "l", "a", "m">>
\* "Punjabi (Gurmukhi)"
PunjabiGurmukhi ==
    <<"P", "u", "n", "j", "a", "b", "i", " ", "(", "G", "u", "r", "m", "u", "k", "h", "i", ")">>
\* "Odia"
Odia ==
    <<"O", "d", "i", "a">>
\* "Assamese"
Assamese ==
    <<"A", "s", "s", "a", "m", "e", "s", "e">>
\* "Urdu"
Urdu ==
    <<"U", "r", "d", "u">>

\* The catalog, in source order.
LANGUAGES ==
    << Hindi, Bengali, Telugu, Marathi, Tamil, Gujarati, Kannada, Malayalam,
       PunjabiGurmukhi, Odia, Assamese, Urdu >>

MODEL_OPTIONS ==
    << "gpt-4", "gpt-3.5-turbo" >>

\* "Punjabi", the substring tested at line 28
PunjabiMark ==
    <<"P", "u", "n", "j", "a", "b", "i">>
\* "Urdu", the substring tested at line 30
UrduMark ==
    <<"U", "r", "d", "u">>
\* "Punjabi written in Gurmukhi script"
PunjabiInstruction ==
    <<"P", "u", "n", "j", "a", "b", "i", " ", "w", "r", "i", "t", "t", "e", "n", " ", "i", "n", " ", "G", "u", "r", "m", "u", "k", "h", "i", " ", "s", "c", "r", "i", "p", "t">>
\* "Urdu using the Perso-Arabic script"
UrduInstruction ==
    <<"U", "r", "d", "u", " ", "u", "s", "i", "n", "g", " ", "t", "h", "e", " ", "P", "e", "r", "s", "o", "-", "A", "r", "a", "b", "i", "c", " ", "s", "c", "r", "i", "p", "t">>
\* "[Error translating to "
ErrorPrefix ==
    <<"[", "E", "r", "r", "o", "r", " ", "t", "r", "a", "n", "s", "l", "a", "t", "i", "n", "g", " ", "t", "o", " ">>
\* ": "
ErrorSep ==
    <<":", " ">>
\* "]"
ErrorSuffix ==
    <<"]">>
\* str(IndexError) raised by response.choices[0] on an empty choices list
IndexErrorDetail ==
    <<"l", "i", "s", "t", " ", "i", "n", "d", "e", "x", " ", "o", "u", "t", " ", "o", "f", " ", "r", "a", "n", "g", "e">>

----------------------------------------------------------------------------
(* Python string operations *)

\* The characters str.strip() removes when called without an argument.
Whitespace ==
    {" ", "\t", "\n", "\r", "\f"}

\* `sub in s` on strings: sub occurs as a contiguous slice of s.
Contains(s, sub) ==
    \E k \in 1..(Len(s) - Len(sub) + 1) : SubSeq(s, k, k + Len(sub) - 1) = sub

RECURSIVE LStrip(_)
LStrip(s) ==
    IF s # <<>> /\ Head(s) \in Whitespace THEN LStrip(Tail(s)) ELSE s

RECURSIVE RStrip(_)
RStrip(s) ==
    IF s # <<>> /\ s[Len(s)] \in Whitespace
    THEN RStrip(SubSeq(s, 1, Len(s) - 1))
    ELSE s

\* A plausible slip: only the leading whitespace is removed (lstrip).
StripLeadingOnly(s) ==
    LStrip(s)

\* str.strip()
Strip(s) ==
    RStrip(LStrip(s))

----------------------------------------------------------------------------
(* PromptBuilder *)

\* A plausible slip: the two tests in the opposite order.
get_language_instruction_urdu_first(language) ==
    IF Contains(language, UrduMark) THEN UrduInstruction
    ELSE IF Contains(language, PunjabiMark) THEN PunjabiInstruction
    ELSE language

get_language_instruction(language) ==
    IF Contains(language, PunjabiMark) THEN PunjabiInstruction
    ELSE IF Contains(language, UrduMark) THEN UrduInstruction
    ELSE language

\* The f-string of build_user_prompt has three holes between fixed template
\* text: the instruction (twice) and the stripped English text.  The prompt
\* is kept as the values that fill the holes.
build_user_prompt(language_instruction, text) ==
    [ task    |-> language_instruction,
      native  |-> language_instruction,
      english |-> Strip(text) ]

\* The keyword arguments of client.chat.completions.create.
ChatRequest(mdl, text, language) ==
    [ model       |-> mdl,
      system      |-> "You are a helpful assistant.",
      user        |-> build_user_prompt(get_language_instruction(language), text),
      temperature |-> "0.2" ]

----------------------------------------------------------------------------
(* What the external chat-completion call can do *)

\* message.content is None
PyNone ==
    [ none |-> TRUE, str |-> <<>> ]

\* message.content is the string s
PyStr(s) ==
    [ none |-> FALSE, str |-> s ]

\* The call raises an Exception whose str() is detail.
Raises(detail) ==
    [ raised |-> TRUE, detail |-> detail, choices |-> <<>> ]

\* The call returns a response whose choices carry these message contents.
Responds(contents) ==
    [ raised |-> FALSE, detail |-> <<>>, choices |-> contents ]

\* `content or ""`
OrEmpty(content) ==
    IF content.none \/ content.str = <<>> THEN <<>> ELSE content.str

\* f"[Error translating to {language}: {e}]"
ErrorText(language, detail) ==
    ErrorPrefix \o language \o ErrorSep \o detail \o ErrorSuffix

\* TRUE when translate_text leaves through its except clause.
Fails(outcome) ==
    outcome.raised \/ outcome.choices = <<>>

\* str(e) of the exception caught at line 61.
FailureDetail(outcome) ==
    IF outcome.raised THEN outcome.detail ELSE IndexErrorDetail

\* A plausible slip: the sentinel names the instruction instead of the language.
translate_text_result_instruction(language, outcome) ==
    IF Fails(outcome)
    THEN ErrorText(get_language_instruction(language), FailureDetail(outcome))
    ELSE Strip(OrEmpty(outcome.choices[1]))

\* What translate_text returns once the call has ended with outcome.
translate_text_result(language, outcome) ==
    IF Fails(outcome)
    THEN ErrorText(language, FailureDetail(outcome))
    ELSE Strip(OrEmpty(outcome.choices[1]))

----------------------------------------------------------------------------
(* Bounds and input sets *)

\* Stored history entries beyond which no further Translate click is explored.
MaxHistory ==
    6

\* Longest language list handed directly to translate_to_multiple.
MaxListLen ==
    2

\* history[:5]
DisplayLimit ==
    5

\* "Urdu Punjabi": a non-catalog name holding both tested substrings
UrduPunjabi ==
    <<"U", "r", "d", "u", " ", "P", "u", "n", "j", "a", "b", "i">>
\* "Request timed out."
TimeoutDetail ==
    <<"R", "e", "q", "u", "e", "s", "t", " ", "t", "i", "m", "e", "d", " ", "o", "u", "t", ".">>

Catalog ==
    { LANGUAGES[k] : k \in 1..Len(LANGUAGES) }

\* Languages of the lists longer than one entry.
BatchLangs ==
    { Hindi, PunjabiGurmukhi, Urdu }

\* Language lists of a direct call: the empty list, every catalog entry and
\* the two-substring name alone, and every list (repeats included) of 2 to
\* MaxListLen entries of BatchLangs.
BatchLists ==
    {<<>>}
      \cup { <<l>> : l \in Catalog \cup {UrduPunjabi} }
      \cup UNION { [1..n -> BatchLangs] : n \in 2..MaxListLen }

BatchTexts ==
    { <<>>, <<" ", "h", "i", "\n">> }

\* Response texts: absent, empty, blank, plain, padded, "  hola  ", inner space.
Contents ==
    { PyNone,
      PyStr(<<>>),
      PyStr(<<" ">>),
      PyStr(<<"h">>),
      PyStr(<<"\n", "h", "\t">>),
      PyStr(<<" ", " ", "h", "o", "l", "a", " ", " ">>),
      PyStr(<<"a", " ", "b">>) }

\* Ends of one external call in a direct batch.
BatchOutcomes ==
    { Raises(TimeoutDetail), Raises(<<>>), Responds(<<>>) }
      \cup { Responds(<<c>>) : c \in Contents }

\* Inputs of a session: text_area values, multiselect values, call ends.
AppTexts ==
    { <<" ", "\n">>, <<" ", "h", "i", " ">> }

AppSelections ==
    { <<>>, <<Hindi, Tamil>> }

AppModels ==
    { MODEL_OPTIONS[1] }

AppOutcomes ==
    { Raises(TimeoutDetail), Responds(<<PyStr(<<" ", "o", "k">>)>>) }

----------------------------------------------------------------------------
(* State *)

VARIABLES
    history,        \* st.session_state.history
    view,           \* the history entries rendered by the last finished run
    status,         \* how the last script run ended / what the current one does
    pc,             \* "idle", "for" (line 69), "create" (line 52), "returned" (line 71)
    english_text,   \* the english_text argument
    model,          \* the model argument
    languages,      \* the languages / selected_languages list
    i,              \* position of the for loop in languages
    results,        \* the results dict of translate_to_multiple
    inflight,       \* requests sent to the endpoint and not yet ended
    calls,          \* log: every request issued by the current batch, in order
    outcomes,       \* log: how each ended call ended, in order
    completed       \* log: history entries since the last Clear, oldest first

vars ==
    << history, view, status, pc, english_text, model, languages, i, results,
       inflight, calls, outcomes, completed >>

----------------------------------------------------------------------------
(* Python dict and list operations *)

\* A plausible slip: the dict starts from a default entry instead of empty.
SeededResults ==
    [ l \in {Hindi} |-> <<>> ]

\* results = {}
NewResults ==
    [ l \in {} |-> <<>> ]

\* d[k] = v
DictSet(d, k, v) ==
    [ x \in DOMAIN d \cup {k} |-> IF x = k THEN v ELSE d[x] ]

\* d.get(k, default)
DictGet(d, k, default) ==
    IF k \in DOMAIN d THEN d[k] ELSE default

Range(s) ==
    { s[k] : k \in 1..Len(s) }

\* A plausible slip: the loop stops one entry early.
LoopDoneEarly(idx, L) ==
    idx >= Len(L)

\* The for loop of line 69 has no entry left.
LoopDone(idx, L) ==
    idx > Len(L)

\* A plausible slip: only the languages that did not fail are recorded.
EntryResultsSuccessOnly(res, sel) ==
    [ l \in { x \in Range(sel) : SubSeq(DictGet(res, x, <<>>), 1, 1) # <<"[">> }
        |-> DictGet(res, l, <<>>) ]

\* {lang: results.get(lang, "") for lang in selected_languages}
EntryResults(res, sel) ==
    [ l \in Range(sel) |-> DictGet(res, l, <<>>) ]

\* A plausible slip: list.append instead of list.insert(0, ...).
HistoryAppend(h, e) ==
    Append(h, e)

\* history.insert(0, e)
HistoryInsert(h, e) ==
    <<e>> \o h

Min(a, b) ==
    IF a < b THEN a ELSE b

\* history[:5]
HistoryView(h) ==
    SubSeq(h, 1, Min(DisplayLimit, Len(h)))

\* A plausible slip: the text is tested without strip().
ValidateUnstripped(text, sel) ==
    IF text = <<>> THEN "warn_text"
    ELSE IF sel = <<>> THEN "warn_langs"
    ELSE "ok"

\* The if / elif / else of lines 121-125.
Validate(text, sel) ==
    IF Strip(text) = <<>> THEN "warn_text"
    ELSE IF sel = <<>> THEN "warn_langs"
    ELSE "ok"

----------------------------------------------------------------------------
(* translate_to_multiple and translate_text, one step per external event *)

coreVars ==
    << english_text, model, languages >>

appVars ==
    << history, view, status, completed >>

\* Line 69 picks the next language; lines 49-52 build and send its request.
IssueRequest ==
    /\ pc = "for"
    /\ ~LoopDone(i, languages)
    /\ LET req == ChatRequest(model, english_text, languages[i])
       IN /\ inflight' = Append(inflight, req)
          /\ calls' = Append(calls, [language |-> languages[i], request |-> req])
    /\ pc' = "create"
    /\ UNCHANGED << coreVars, appVars, i, results, outcomes >>

\* A plausible slip: a failed call is sent again instead of being recorded.
CallEndsRetry(outcome) ==
    /\ pc = "create"
    /\ inflight' = Tail(inflight)
    /\ outcomes' = Append(outcomes, outcome)
    /\ IF Fails(outcome) /\ Len(calls) <= Len(languages)
       THEN UNCHANGED << results, i >>
       ELSE /\ results' = DictSet(results, languages[i],
                                  translate_text_result(languages[i], outcome))
            /\ i' = i + 1
    /\ pc' = "for"
    /\ UNCHANGED << coreVars, appVars, calls >>

\* A plausible slip: a failure leaves the loop (no try / except).
CallEndsAbort(outcome) ==
    /\ pc = "create"
    /\ inflight' = Tail(inflight)
    /\ outcomes' = Append(outcomes, outcome)
    /\ IF Fails(outcome)
       THEN /\ UNCHANGED << results, i >>
            /\ pc' = "returned"
       ELSE /\ results' = DictSet(results, languages[i],
                                  translate_text_result(languages[i], outcome))
            /\ i' = i + 1
            /\ pc' = "for"
    /\ UNCHANGED << coreVars, appVars, calls >>

\* The call of line 52 ends; translate_text returns (line 60 or 62) and
\* line 70 stores its result under the language.
CallEnds(outcome) ==
    /\ pc = "create"
    /\ inflight' = Tail(inflight)
    /\ outcomes' = Append(outcomes, outcome)
    /\ results' = DictSet(results, languages[i],
                          translate_text_result(languages[i], outcome))
    /\ i' = i + 1
    /\ pc' = "for"
    /\ UNCHANGED << coreVars, appVars, calls >>

\* Line 71: the loop is over and the mapping is returned.
Return ==
    /\ pc = "for"
    /\ LoopDone(i, languages)
    /\ pc' = "returned"
    /\ UNCHANGED << coreVars, appVars, i, results, inflight, calls, outcomes >>

----------------------------------------------------------------------------
(* Direct calls of translate_to_multiple *)

BatchInit ==
    /\ history = <<>>
    /\ view = <<>>
    /\ status = "direct"
    /\ completed = <<>>
    /\ pc = "for"
    /\ english_text \in BatchTexts
    /\ model \in Range(MODEL_OPTIONS)
    /\ languages \in BatchLists
    /\ i = 1
    /\ results = NewResults
    /\ inflight = <<>>
    /\ calls = <<>>
    /\ outcomes = <<>>

BatchNext ==
    \/ IssueRequest
    \/ \E o \in BatchOutcomes : CallEnds(o)
    \/ Return

BatchSpec ==
    BatchInit /\ [][BatchNext]_vars

----------------------------------------------------------------------------
(* main(): one script run per button click *)

\* Lines 135-142: the entry main() stores for the finished request.
HistoryEntry ==
    [ text    |-> Strip(english_text),
      model   |-> model,
      results |-> EntryResults(results, languages) ]

\* Lines 116-118: Clear empties the history and reruns the script; the rerun
\* has no button pressed and an empty history, so nothing is rendered.
ClickClear ==
    /\ pc = "idle"
    /\ history' = <<>>
    /\ completed' = <<>>
    /\ view' = <<>>
    /\ status' = "cleared"
    /\ UNCHANGED << pc, coreVars, i, results, inflight, calls, outcomes >>

\* Lines 120-128: Translate with the widget values text, sel and mdl.
\* client_ok tells whether OpenAI() at line 126 constructs a client; when it
\* raises, the run dies there and renders no history section.
ClickTranslate(text, sel, mdl, client_ok) ==
    /\ pc = "idle"
    /\ english_text' = text
    /\ languages' = sel
    /\ model' = mdl
    /\ i' = 1
    /\ results' = NewResults
    /\ calls' = <<>>
    /\ outcomes' = <<>>
    /\ UNCHANGED << history, completed, inflight >>
    /\ IF Validate(text, sel) # "ok"
       THEN /\ status' = Validate(text, sel)
            /\ view' = HistoryView(history)
            /\ pc' = "idle"
       ELSE IF ~client_ok
       THEN /\ status' = "client_error"
            /\ view' = <<>>
            /\ pc' = "idle"
       ELSE /\ Len(history) < MaxHistory
            /\ status' = "translating"
            /\ view' = view
            /\ pc' = "for"

\* Lines 130-155: the batch has returned; main() renders the translations,
\* puts the entry in the history and renders the history section.  The run
\* ends here and its locals (and the logs of its batch) go with it.
RecordHistory ==
    /\ pc = "returned"
    /\ history' = HistoryInsert(history, HistoryEntry)
    /\ completed' = Append(completed, HistoryEntry)
    /\ view' = HistoryView(history')
    /\ status' = "ok"
    /\ pc' = "idle"
    /\ i' = 1
    /\ results' = NewResults
    /\ calls' = <<>>
    /\ outcomes' = <<>>
    /\ UNCHANGED << coreVars, inflight >>

Init ==
    /\ history = <<>>
    /\ view = <<>>
    /\ status = "started"
    /\ completed = <<>>
    /\ pc = "idle"
    /\ english_text = <<>>
    /\ model = MODEL_OPTIONS[1]
    /\ languages = <<>>
    /\ i = 1
    /\ results = NewResults
    /\ inflight = <<>>
    /\ calls = <<>>
    /\ outcomes = <<>>

Next ==
    \/ ClickClear
    \/ \E text \in AppTexts, sel \in AppSelections, mdl \in AppModels,
          client_ok \in BOOLEAN : ClickTranslate(text, sel, mdl, client_ok)
    \/ IssueRequest
    \/ \E o \in AppOutcomes : CallEnds(o)
    \/ Return
    \/ RecordHistory

Spec ==
    Init /\ [][Next]_vars

----------------------------------------------------------------------------
(* Vocabulary of the properties, stated without the operators of the model *)

\* "Gurmukhi"
Gurmukhi ==
    <<"G", "u", "r", "m", "u", "k", "h", "i">>
\* "Perso-Arabic"
PersoArabic ==
    <<"P", "e", "r", "s", "o", "-", "A", "r", "a", "b", "i", "c">>
\* "hola"
Hola ==
    <<"h", "o", "l", "a">>
\* "  hola  "
HolaPadded ==
    <<" ", " ", "h", "o", "l", "a", " ", " ">>

IsBlank(s) ==
    \A k \in 1..Len(s) : s[k] \in Whitespace

\* r is s without its leading and trailing whitespace.
IsTrimOf(r, s) ==
    /\ r = <<>> \/ (r[1] \notin Whitespace /\ r[Len(r)] \notin Whitespace)
    /\ \E a \in 0..Len(s) :
          /\ a + Len(r) <= Len(s)
          /\ r = SubSeq(s, a + 1, a + Len(r))
          /\ \A k \in 1..a : s[k] \in Whitespace
          /\ \A k \in (a + Len(r) + 1)..Len(s) : s[k] \in Whitespace

\* r reads "[Error translating to <name>: <detail>]".
IsSentinel(r, name, detail) ==
    /\ Len(r) = 22 + Len(name) + 2 + Len(detail) + 1
    /\ SubSeq(r, 1, 22) = ErrorPrefix
    /\ SubSeq(r, 23, 22 + Len(name)) = name
    /\ SubSeq(r, 23 + Len(name), 24 + Len(name)) = <<":", " ">>
    /\ SubSeq(r, 25 + Len(name), Len(r) - 1) = detail
    /\ r[Len(r)] = "]"

\* The call that ended with o raised, or its response had no choice to read.
CallFailed(o) ==
    o.raised \/ Len(o.choices) = 0

\* The description of that failure.
DetailOf(o) ==
    IF o.raised THEN o.detail ELSE IndexErrorDetail

\* The text of the first choice, "" when it is None.
TextOf(o) ==
    IF o.choices[1].none THEN <<>> ELSE o.choices[1].str

\* k is the last position of its language in the list.
LastOccurrence(k) ==
    \A j \in (k + 1)..Len(languages) : languages[j] # languages[k]

\* translate_text has just returned to line 70 for position i - 1.
JustReturned ==
    pc = "for" /\ i > 1

----------------------------------------------------------------------------
(* Properties *)

\* C1: failure containment in a batch.  When translate_to_multiple returns,
\* every call of the list has been made and has ended, and under each
\* language stands the outcome of its (last) call: the trimmed response text
\* if that call succeeded, the error sentinel naming that language if it
\* failed, whatever happened to the calls before or after it.
C1_FailureContainment ==
    pc = "returned" =>
        /\ Len(outcomes) = Len(languages)
        /\ \A k \in 1..Len(languages) :
              LastOccurrence(k) =>
                 /\ languages[k] \in DOMAIN results
                 /\ IF CallFailed(outcomes[k])
                    THEN IsSentinel(results[languages[k]], languages[k],
                                    DetailOf(outcomes[k]))
                    ELSE IsTrimOf(results[languages[k]], TextOf(outcomes[k]))

\* C1 witness: a returned batch of distinct languages in which exactly one
\* call failed, and it was not the last one.
C1_Witness ==
    /\ pc = "returned"
    /\ Len(languages) >= 2
    /\ languages[1] # languages[2]
    /\ Len(outcomes) = Len(languages)
    /\ CallFailed(outcomes[1])
    /\ \A k \in 2..Len(outcomes) : ~CallFailed(outcomes[k])
    /\ results[languages[2]] # <<>>

\* C2: total coverage.  For a non-empty list the returned mapping has exactly
\* the entries of the list as its keys, however many calls failed.
C2_TotalCoverage ==
    (pc = "returned" /\ languages # <<>>) =>
        DOMAIN results = { languages[k] : k \in 1..Len(languages) }

\* C2 witness: a returned batch of two languages whose calls both failed.
C2_Witness ==
    /\ pc = "returned"
    /\ Len(languages) >= 2
    /\ languages[1] # languages[2]
    /\ \A k \in 1..Len(outcomes) : CallFailed(outcomes[k])
    /\ Len(outcomes) = Len(languages)

\* C3: translate_text never propagates a failure.  After any call that failed
\* (raised, or malformed response) control is back in the loop and the value
\* stored for the language is exactly "[Error translating to <language>:
\* <detail>]" with the language as passed in; after a call that did not fail
\* it is not produced by the except clause but is the trimmed response text.
C3_ContainedError ==
    /\ pc \in {"idle", "for", "create", "returned"}
    /\ JustReturned =>
          LET l == languages[i - 1]
              o == outcomes[i - 1]
          IN /\ l \in DOMAIN results
             /\ CallFailed(o) => IsSentinel(results[l], l, DetailOf(o))
             /\ ~CallFailed(o) => IsTrimOf(results[l], TextOf(o))

\* C3 witness: the call for "Punjabi (Gurmukhi)", whose instruction differs
\* from its name, has just failed with a timeout.
C3_Witness ==
    /\ JustReturned
    /\ languages[i - 1] = PunjabiGurmukhi
    /\ outcomes[i - 1] = Raises(TimeoutDetail)

\* C4: strictly sequential, single-shot dispatch.  The requests issued so far
\* are for the first entries of the list, one each and in list order; at most
\* one is in flight; a request is issued only when every earlier one has
\* ended; at return there is exactly one per entry.
C4_SequentialDispatch ==
    /\ Len(inflight) <= 1
    /\ Len(calls) <= Len(languages)
    /\ \A k \in 1..Len(calls) :
          /\ k <= Len(languages)
          /\ calls[k].language = languages[k]
    /\ Len(calls) = Len(outcomes) + Len(inflight)
    /\ pc = "returned" => Len(calls) = Len(languages)

\* C4 witness: a batch of two or more languages has returned although its
\* first call failed.
C4_Witness ==
    /\ pc = "returned"
    /\ Len(languages) >= 2
    /\ Len(calls) = Len(languages)
    /\ CallFailed(outcomes[1])

\* C5: empty-list no-op.  With an empty language list no request is ever
\* issued and the mapping returned is empty.
C5_EmptyListNoOp ==
    (languages = <<>> /\ status = "direct") =>
        /\ calls = <<>>
        /\ inflight = <<>>
        /\ pc \in {"for", "returned"}
        /\ pc = "returned" => DOMAIN results = {}

\* C5 witness: translate_to_multiple has returned for the empty list.
C5_Witness ==
    /\ status = "direct"
    /\ languages = <<>>
    /\ pc = "returned"

\* C6: script disambiguation.  In every request issued, the instruction for
\* "Punjabi (Gurmukhi)" contains "Gurmukhi", the one for "Urdu" contains
\* "Perso-Arabic", the one for any other catalog entry is the name itself,
\* and a name holding both "Punjabi" and "Urdu" gets the Gurmukhi one.
C6_ScriptDisambiguation ==
    \A k \in 1..Len(calls) :
        LET l   == calls[k].language
            ins == calls[k].request.user.task
        IN /\ l = PunjabiGurmukhi => Contains(ins, Gurmukhi)
           /\ l = Urdu => Contains(ins, PersoArabic)
           /\ l \in Catalog \ {PunjabiGurmukhi, Urdu} => ins = l
           /\ (Contains(l, PunjabiMark) /\ Contains(l, UrduMark)) =>
                 (Contains(ins, Gurmukhi) /\ ~Contains(ins, PersoArabic))
           /\ calls[k].request.user.native = ins

\* C6 witness: one batch has issued the requests for both annotated entries.
C6_Witness ==
    /\ \E k \in 1..Len(calls) : calls[k].language = PunjabiGurmukhi
    /\ \E k \in 1..Len(calls) : calls[k].language = Urdu

\* C7: success path.  When the call succeeded the value stored is the
\* response text without leading and trailing whitespace ("  hola  " gives
\* "hola"), and an absent or empty text gives "", not an error sentinel.
C7_SuccessTrimmed ==
    (JustReturned /\ ~CallFailed(outcomes[i - 1])) =>
        LET c == outcomes[i - 1].choices[1]
            r == results[languages[i - 1]]
        IN /\ ~c.none => IsTrimOf(r, c.str)
           /\ (~c.none /\ c.str = HolaPadded) => r = Hola
           /\ (c.none \/ c.str = <<>>) => r = <<>>

\* C7 witness: a call has just answered "  hola  " and "hola" is stored.
C7_Witness ==
    /\ JustReturned
    /\ outcomes[i - 1] = Responds(<<PyStr(HolaPadded)>>)
    /\ results[languages[i - 1]] = Hola

\* A script run that reached the history section (lines 144-155) has ended.
RenderedHistory ==
    pc = "idle" /\ status \in {"ok", "warn_text", "warn_langs"}

\* C8: history ordering and display bound.  The stored history is the
\* requests completed since the last Clear, most recent first, none dropped;
\* a run that renders the history shows its first 5 entries (the 5 most
\* recently completed, most recent first); after Clear the history is empty.
C8_HistoryOrderAndView ==
    /\ Len(history) = Len(completed)
    /\ \A k \in 1..Len(history) : history[k] = completed[Len(completed) - k + 1]
    /\ status = "cleared" => history = <<>>
    /\ RenderedHistory =>
          /\ Len(view) = (IF Len(history) < 5 THEN Len(history) ELSE 5)
          /\ \A k \in 1..Len(view) : view[k] = completed[Len(completed) - k + 1]

\* C8 witness: six requests are stored, five are shown, and the newest
\* differs from both the one before it and the oldest.
C8_Witness ==
    /\ RenderedHistory
    /\ Len(history) = 6
    /\ Len(view) = 5
    /\ history[1] # history[2]
    /\ history[1] # history[6]

\* C9: the history is written only by main() and only after a complete
\* batch.  No step taken inside translate_to_multiple / translate_text
\* changes the history; the history changes only by Clear emptying it, or by
\* one entry put in front after the batch has returned with every call
\* ended, and that entry has one result per selected language.
C9_HistoryWrittenAfterBatch ==
    [][ /\ pc \in {"for", "create"} => history' = history
        /\ history' # history =>
              \/ history' = <<>> /\ pc = "idle"
              \/ /\ pc = "returned"
                 /\ inflight = <<>>
                 /\ Len(outcomes) = Len(languages)
                 /\ Len(history') = Len(history) + 1
                 /\ Tail(history') = history
                 /\ DOMAIN history'[1].results
                       = { languages[k] : k \in 1..Len(languages) }
      ]_vars

\* C9 witness: the newest entry holds the error sentinel of a failed
\* language next to a translation.
C9_Witness ==
    /\ history # <<>>
    /\ Hindi \in DOMAIN history[1].results
    /\ Tamil \in DOMAIN history[1].results
    /\ IsSentinel(history[1].results[Hindi], Hindi, TimeoutDetail)
    /\ history[1].results[Tamil] = <<"o", "k">>

\* C10: validation gate of main().  A Translate click whose text is blank
\* or whose selection is empty issues no request and leaves the history
\* alone, the text warning winning when both are empty; a request is in
\* flight or logged, and the history grows, only for a non-blank text and a
\* non-empty selection.
C10_ValidationGate ==
    /\ []( (calls # <<>> \/ inflight # <<>> \/ pc # "idle") =>
              (~IsBlank(english_text) /\ languages # <<>>) )
    /\ [][ /\ (pc = "idle" /\ status' # "cleared") =>
                 /\ (IsBlank(english_text') \/ languages' = <<>>) =>
                       /\ history' = history
                       /\ pc' = "idle"
                       /\ calls' = <<>>
                       /\ inflight' = <<>>
                 /\ IsBlank(english_text') => status' = "warn_text"
                 /\ (~IsBlank(english_text') /\ languages' = <<>>) =>
                       status' = "warn_langs"
           /\ Len(history') > Len(history) =>
                 (~IsBlank(english_text) /\ languages # <<>>)
         ]_vars

\* C10 witness: with requests already in the history, a click with a blank
\* text and an empty selection has been turned away with the text warning.
C10_Witness ==
    /\ pc = "idle"
    /\ status = "warn_text"
    /\ IsBlank(english_text)
    /\ languages = <<>>
    /\ history # <<>>

====
